---- MODULE Spec2Model ----
(***************************************************************************)
(* Model of the MiC Dynamic Scheduler core: working-hour arithmetic        *)
(* (utils/helpers.py), precedence-cycle validation (utils/helpers.py) and  *)
(* rolling-horizon preemption and splitting (core/model.py).               *)
(*                                                                         *)
(* A timestamp is an integer number of ticks since a Monday 00:00;         *)
(* TicksPerHour ticks make one hour, so a timestamp can lie off the hour.  *)
(* A task is a Python dict, modelled as a function from key strings to     *)
(* values; the set of keys of a dict can grow (DOMAIN of the function).    *)
(***************************************************************************)
EXTENDS Integers, Sequences, FiniteSets, TLC

VARIABLES
    pc,             \* position of the caller: "input", "checked", "done"
    tasks_list,     \* the task list handed to check_cycles / edited by the caller
    new_pred,       \* last candidate predecessor given to check_cycles
    target_id,      \* last target ID given to check_cycles
    cycle_found,    \* last value returned by check_cycles
    start_dt,       \* argument of add_work_hours
    hours_needed,   \* argument of add_work_hours
    result_dt,      \* value returned by add_work_hours
    running_tasks,  \* the caller's task collection (output of the last rollover)
    next_free_id,   \* the caller's ID counter (returned by the last rollover)
    input_tasks,    \* the collection passed to the last preempt_and_split call
    input_id,       \* the counter passed to the last preempt_and_split call
    roll_dt,        \* the rollover instant of the last preempt_and_split call
    assigned_ids,   \* every ID value a task has carried before the last call
    duration_hours, \* argument of calculate_risk_integral
    urgency,        \* argument of calculate_risk_integral
    total_risk,     \* value returned by calculate_risk_integral
    heap,           \* the objects (dicts and lists) of the program, by address
    heap_at_call,   \* the heap when preempt_and_split was called
    heap_at_return, \* the heap when preempt_and_split returned
    task_refs,      \* addresses of the tasks passed to preempt_and_split
    split_refs,     \* addresses of the tasks preempt_and_split returned
    mutated         \* address of the task a later statement has mutated

vars == <<pc, tasks_list, new_pred, target_id, cycle_found, start_dt,
          hours_needed, result_dt, running_tasks, next_free_id, input_tasks,
          input_id, roll_dt, assigned_ids, duration_hours, urgency,
          total_risk, heap, heap_at_call, heap_at_return, task_refs,
          split_refs, mutated>>

graphVars == <<tasks_list, new_pred, target_id, cycle_found>>
calVars   == <<start_dt, hours_needed, result_dt>>
splitVars == <<running_tasks, next_free_id, input_tasks, input_id, roll_dt,
               assigned_ids>>
riskVars  == <<duration_hours, urgency, total_risk>>
heapVars  == <<heap, heap_at_call, heap_at_return, task_refs, split_refs,
               mutated>>

(***************************************************************************)
(* Bounds of the model.                                                    *)
(***************************************************************************)
TicksPerHour == 2      \* resolution of a timestamp below the hour
MaxEdges     == 3      \* predecessor entries over the whole task list
MaxHours     == 9      \* largest hours_needed given to add_work_hours
MaxDuration  == 2      \* largest Duration_Hours of an initial running task
MaxID        == 8      \* rollovers stop before the ID counter passes it
NumTasks     == 3      \* tasks of the precedence graph
MaxRiskHours == 4      \* largest duration_hours given to calculate_risk_integral
MaxUrgency   == 10     \* Urgency is 0-10
TaskIDs      == 1..NumTasks          \* their IDs
GraphIDs     == 1..(NumTasks + 1)    \* and one ID that no task carries

(***************************************************************************)
(* CalendarModel                                                           *)
(***************************************************************************)
WORK_HOURS == <<<<8, 12>>, <<13, 17>>>>

RestDay == 6           \* datetime.weekday() of a Sunday

Hour(dt)    == (dt \div TicksPerHour) % 24         \* dt_obj.hour
Weekday(dt) == (dt \div (TicksPerHour * 24)) % 7   \* dt_obj.weekday()
OneHour     == TicksPerHour                        \* timedelta(hours=1)
At(day, hour, tick) == ((day * 24) + hour) * TicksPerHour + tick

is_working_hour(dt_obj) ==
    IF Weekday(dt_obj) = RestDay
    THEN FALSE
    ELSE \E i \in DOMAIN WORK_HOURS :
            WORK_HOURS[i][1] <= Hour(dt_obj) /\ Hour(dt_obj) < WORK_HOURS[i][2]

\* start_dt.replace(minute=0, second=0, microsecond=0)
ZeroMinutes(dt) == dt - (dt % TicksPerHour)

\* while not is_working_hour(current_dt): current_dt += 1h
RECURSIVE SnapForward(_)
SnapForward(current_dt) ==
    IF is_working_hour(current_dt)
    THEN current_dt
    ELSE SnapForward(current_dt + OneHour)

\* while hours_added < hours_needed: current_dt += 1h; count it if working
RECURSIVE AdvanceHours(_, _, _)
AdvanceHours(current_dt, hours_added, needed) ==
    IF hours_added < needed
    THEN LET next_dt == current_dt + OneHour
         IN  AdvanceHours(next_dt,
                          IF is_working_hour(next_dt) THEN hours_added + 1
                                                      ELSE hours_added,
                          needed)
    ELSE current_dt

\* Mutant: the counting loop steps backwards in time.
RECURSIVE AdvanceHoursBack(_, _, _)
AdvanceHoursBack(current_dt, hours_added, needed) ==
    IF hours_added < needed
    THEN LET next_dt == current_dt - OneHour
         IN  AdvanceHoursBack(next_dt,
                              IF is_working_hour(next_dt) THEN hours_added + 1
                                                          ELSE hours_added,
                              needed)
    ELSE current_dt

add_work_hours_back(start, needed) ==
    IF needed <= 0
    THEN start
    ELSE AdvanceHoursBack(SnapForward(ZeroMinutes(start)), 0, needed)

add_work_hours(start, needed) ==
    IF needed <= 0
    THEN start
    ELSE AdvanceHours(SnapForward(ZeroMinutes(start)), 0, needed)

(***************************************************************************)
(* RiskEngine.  Tick 0 is Monday 1 January 2024, 00:00.  A probability is  *)
(* held in hundredths and a severity in tenths; total_risk, the product of *)
(* a probability and urgency / 10.0 summed up, is held in thousandths, and *)
(* so is the value returned.                                               *)
(***************************************************************************)
HK_WEATHER_RISK ==
    <<<<1, 0>>, <<1, 0>>, <<2, 5>>, <<5, 10>>, <<15, 20>>, <<30, 30>>,
      <<50, 40>>, <<60, 50>>, <<40, 30>>, <<20, 20>>, <<5, 10>>, <<1, 0>>>>

\* Day of the year 2024 on which each month begins.
MonthStarts == <<0, 31, 60, 91, 121, 152, 182, 213, 244, 274, 305, 335>>

\* date_obj.month
Month(dt) ==
    LET day == (dt \div (TicksPerHour * 24)) % 366
    IN  Cardinality({m \in DOMAIN MonthStarts : MonthStarts[m] <= day})

\* Config.HK_WEATHER_RISK.get(date_obj.month, (0, 0))
get_risk_factor(date_obj) ==
    IF Month(date_obj) \in DOMAIN HK_WEATHER_RISK
    THEN HK_WEATHER_RISK[Month(date_obj)]
    ELSE <<0, 0>>

\* Mutant: the hour's risk is assigned to total_risk instead of added to it.
RECURSIVE RiskLoopAssign(_, _, _, _, _)
RiskLoopAssign(current_dt, hours_counted, risk, duration, urg) ==
    IF hours_counted < duration
    THEN IF is_working_hour(current_dt)
         THEN RiskLoopAssign(current_dt + OneHour, hours_counted + 1,
                             get_risk_factor(current_dt)[1] * urg, duration, urg)
         ELSE RiskLoopAssign(current_dt + OneHour, hours_counted, risk,
                             duration, urg)
    ELSE risk

\* while hours_counted < duration_hours: ...; urg is 10 * urgency_factor
RECURSIVE RiskLoop(_, _, _, _, _)
RiskLoop(current_dt, hours_counted, risk, duration, urg) ==
    IF hours_counted < duration
    THEN IF is_working_hour(current_dt)
         THEN RiskLoop(current_dt + OneHour, hours_counted + 1,
                       risk + get_risk_factor(current_dt)[1] * urg, duration, urg)
         ELSE RiskLoop(current_dt + OneHour, hours_counted, risk, duration, urg)
    ELSE risk

calculate_risk_integral_assign(start, duration, urg) ==
    RiskLoopAssign(start, 0, 0, duration, urg) * 100

calculate_risk_integral(start, duration, urg) ==
    RiskLoop(start, 0, 0, duration, urg) * 100

(***************************************************************************)
(* DependencyGraph                                                         *)
(***************************************************************************)
IDsOf(tasks) == {tasks[i].ID : i \in DOMAIN tasks}

\* {task['ID']: task['Predecessors'].copy() for task in tasks_list}:
\* a later task of the list overwrites an earlier one with the same ID.
TaskGraph(tasks) ==
    [id \in IDsOf(tasks) |->
        LET last == CHOOSE i \in DOMAIN tasks :
                        /\ tasks[i].ID = id
                        /\ \A j \in DOMAIN tasks : tasks[j].ID = id => j <= i
        IN  tasks[last].Predecessors]

\* task_graph.get(node, [])
Neighbors(task_graph, node) ==
    IF node \in DOMAIN task_graph THEN task_graph[node] ELSE <<>>

\* dfs_visit with its nonlocal sets visited and stack threaded through.
RECURSIVE dfs_visit(_, _, _, _)
RECURSIVE dfs_neighbors(_, _, _, _, _)
dfs_visit(task_graph, node, visited, stack) ==
    IF node \in stack
    THEN [found |-> TRUE, visited |-> visited, stack |-> stack]
    ELSE IF node \in visited
    THEN [found |-> FALSE, visited |-> visited, stack |-> stack]
    ELSE LET r == dfs_neighbors(task_graph, Neighbors(task_graph, node), 1,
                                visited \cup {node}, stack \cup {node})
         IN  IF r.found
             THEN r
             ELSE [found |-> FALSE, visited |-> r.visited,
                   stack |-> r.stack \ {node}]

\* for neighbor in task_graph.get(node, []): if dfs_visit(neighbor): return True
dfs_neighbors(task_graph, nbrs, i, visited, stack) ==
    IF i > Len(nbrs)
    THEN [found |-> FALSE, visited |-> visited, stack |-> stack]
    ELSE LET r == dfs_visit(task_graph, nbrs[i], visited, stack)
         IN  IF r.found
             THEN r
             ELSE dfs_neighbors(task_graph, nbrs, i + 1, r.visited, r.stack)

\* Mutant: the traversal starts from the candidate instead of the target.
check_cycles_from_pred(tasks, pred, target) ==
    LET task_graph == TaskGraph(tasks)
    IN  IF target \notin DOMAIN task_graph
        THEN FALSE
        ELSE LET appended == [task_graph EXCEPT
                                 ![target] = Append(task_graph[target], pred)]
             IN  dfs_visit(appended, pred, {}, {}).found

\* Mutant: the candidate is never appended to the target's predecessors.
check_cycles_no_append(tasks, pred, target) ==
    LET task_graph == TaskGraph(tasks)
    IN  IF target \notin DOMAIN task_graph
        THEN FALSE
        ELSE dfs_visit(task_graph, target, {}, {}).found

check_cycles(tasks, pred, target) ==
    LET task_graph == TaskGraph(tasks)
    IN  IF target \notin DOMAIN task_graph
        THEN FALSE
        ELSE LET appended == [task_graph EXCEPT
                                 ![target] = Append(task_graph[target], pred)]
             IN  dfs_visit(appended, target, {}, {}).found

(***************************************************************************)
(* ReplanEngine: ProjectModel.preempt_and_split                            *)
(***************************************************************************)
\* d[k] = v on a dict: the key is added when the dict does not hold it yet.
SetItem(d, k, v) == [x \in DOMAIN d \cup {k} |-> IF x = k THEN v ELSE d[x]]

\* Mutant: the loop runs to roll_dt without the bound by Duration_Hours.
RECURSIVE CompletedHoursUnbounded(_, _, _, _)
CompletedHoursUnbounded(current_dt, roll, completed_hours, duration) ==
    IF current_dt < roll
    THEN CompletedHoursUnbounded(current_dt + OneHour, roll,
                        IF is_working_hour(current_dt) THEN completed_hours + 1
                                                       ELSE completed_hours,
                        duration)
    ELSE completed_hours

\* Mutant: the loop tests the hour after the one it counts.
RECURSIVE CompletedHoursLate(_, _, _, _)
CompletedHoursLate(current_dt, roll, completed_hours, duration) ==
    IF current_dt < roll /\ completed_hours < duration
    THEN CompletedHoursLate(current_dt + OneHour, roll,
                        IF is_working_hour(current_dt + OneHour)
                        THEN completed_hours + 1
                        ELSE completed_hours,
                        duration)
    ELSE completed_hours

\* while current_dt < roll_dt and completed_hours < task['Duration_Hours']
RECURSIVE CompletedHours(_, _, _, _)
CompletedHours(current_dt, roll, completed_hours, duration) ==
    IF current_dt < roll /\ completed_hours < duration
    THEN CompletedHours(current_dt + OneHour, roll,
                        IF is_working_hour(current_dt) THEN completed_hours + 1
                                                       ELSE completed_hours,
                        duration)
    ELSE completed_hours

\* Mutant: done_task keeps the ID of the task it was copied from.
DoneTaskKeepsID(task, roll, completed_hours, free_id) ==
    SetItem(SetItem(SetItem(task,
        "Duration_Hours", completed_hours),
        "end_dt", roll),
        "status", "Split-Done")

\* done_task = copy.deepcopy(task), then its four assignments
DoneTask(task, roll, completed_hours, free_id) ==
    SetItem(SetItem(SetItem(SetItem(task,
        "ID", free_id),
        "Duration_Hours", completed_hours),
        "end_dt", roll),
        "status", "Split-Done")

\* Mutant: rem_task takes the ID already given to done_task.
RemTaskSameID(task, roll, remaining_hours, free_id, done_id) ==
    SetItem(SetItem(SetItem(SetItem(SetItem(task,
        "ID", done_id),
        "Duration_Hours", remaining_hours),
        "start_dt", roll),
        "predecessors", <<done_id>>),
        "status", "Split-Remaining")

\* rem_task = copy.deepcopy(task), then its five assignments
RemTask(task, roll, remaining_hours, free_id, done_id) ==
    SetItem(SetItem(SetItem(SetItem(SetItem(task,
        "ID", free_id),
        "Duration_Hours", remaining_hours),
        "start_dt", roll),
        "predecessors", <<done_id>>),
        "status", "Split-Remaining")

\* The body of `for task in running_tasks`, from task i on.
RECURSIVE SplitFrom(_, _, _, _, _)
SplitFrom(tasks, i, roll, free_id, split_tasks) ==
    IF i > Len(tasks)
    THEN [split_tasks |-> split_tasks, next_free_id |-> free_id]
    ELSE LET task == tasks[i]
         IN  IF task.end_dt <= roll
             THEN SplitFrom(tasks, i + 1, roll, free_id, Append(split_tasks, task))
             ELSE LET completed_hours ==
                          CompletedHours(task.start_dt, roll, 0, task.Duration_Hours)
                      done_task == DoneTask(task, roll, completed_hours, free_id)
                      remaining_hours == task.Duration_Hours - completed_hours
                      rem_task == RemTask(task, roll, remaining_hours,
                                          free_id + 1, done_task.ID)
                  IN  SplitFrom(tasks, i + 1, roll, free_id + 2,
                                Append(Append(split_tasks, done_task), rem_task))

preempt_and_split(tasks, roll, free_id) == SplitFrom(tasks, 1, roll, free_id, <<>>)

(***************************************************************************)
(* preempt_and_split over a heap of objects.  The heap is a sequence and   *)
(* an address is an index of it; a task is a dict object whose list-valued *)
(* keys hold the address of a list object, so two dicts can share a list   *)
(* and two names can denote one dict.                                      *)
(***************************************************************************)
ListKeys == {"Predecessors", "predecessors"}

\* One list-valued key of a dict being deep-copied: the list is copied too.
CopyListKey(st, k) ==
    IF k \in DOMAIN st.dict
    THEN [heap |-> Append(st.heap, st.heap[st.dict[k]]),
          dict |-> SetItem(st.dict, k, Len(st.heap) + 1)]
    ELSE st

\* Mutant: task.copy(), a new dict whose values are the same objects.
ShallowCopy(h, ref) == [heap |-> Append(h, h[ref]), ref |-> Len(h) + 1]

\* copy.deepcopy(task): a new dict with a copy of every list it holds
DeepCopy(h, ref) ==
    LET s1 == CopyListKey([heap |-> h, dict |-> h[ref]], "Predecessors")
        s2 == CopyListKey(s1, "predecessors")
    IN  [heap |-> Append(s2.heap, s2.dict), ref |-> Len(s2.heap) + 1]

\* The body of `for task in running_tasks` on the heap, from task i on.
RECURSIVE HeapSplitFrom(_, _, _, _, _, _)
HeapSplitFrom(h, refs, i, roll, free_id, split_tasks) ==
    IF i > Len(refs)
    THEN [heap |-> h, split_tasks |-> split_tasks, next_free_id |-> free_id]
    ELSE LET task == refs[i]
         IN  IF h[task].end_dt <= roll
             THEN HeapSplitFrom(h, refs, i + 1, roll, free_id,
                                Append(split_tasks, task))
             ELSE LET completed_hours ==
                          CompletedHours(h[task].start_dt, roll, 0,
                                         h[task].Duration_Hours)
                      c1 == DeepCopy(h, task)
                      done_task == c1.ref
                      h1 == [c1.heap EXCEPT ![done_task] =
                                DoneTask(@, roll, completed_hours, free_id)]
                      remaining_hours == h1[task].Duration_Hours - completed_hours
                      c2 == DeepCopy(h1, task)
                      rem_task == c2.ref
                      \* [done_task['ID']] is a new list object
                      new_list == Len(c2.heap) + 1
                      h2 == Append(c2.heap, <<h1[done_task].ID>>)
                      h3 == [h2 EXCEPT ![rem_task] =
                                SetItem(RemTask(@, roll, remaining_hours,
                                                free_id + 1, h1[done_task].ID),
                                        "predecessors", new_list)]
                  IN  HeapSplitFrom(h3, refs, i + 1, roll, free_id + 2,
                                    Append(Append(split_tasks, done_task), rem_task))

heap_preempt_and_split(h, refs, roll, free_id) ==
    HeapSplitFrom(h, refs, 1, roll, free_id, <<>>)

\* The task at an address with its lists read through: the task's value.
TaskValue(h, ref) ==
    [k \in DOMAIN h[ref] |-> IF k \in ListKeys THEN h[h[ref][k]] ELSE h[ref][k]]

(***************************************************************************)
(* Graph notions the claims are stated with (not code of the program).     *)
(***************************************************************************)
HasEdge(g, a, b) == a \in DOMAIN g /\ \E i \in DOMAIN g[a] : g[a][i] = b

RECURSIVE Closure(_, _)
Closure(g, S) ==
    LET T == S \cup {b \in GraphIDs : \E a \in S : HasEdge(g, a, b)}
    IN  IF T = S THEN S ELSE Closure(g, T)

\* Nodes reached from a by one or more predecessor edges.
ReachFrom(g, a) == Closure(g, {b \in GraphIDs : HasEdge(g, a, b)})

OnCycle(g, a) == a \in ReachFrom(g, a)
Acyclic(g) == \A a \in GraphIDs : ~OnCycle(g, a)
CycleReachableFrom(g, t) == \E a \in {t} \cup ReachFrom(g, t) : OnCycle(g, a)

WithEdge(g, t, p) == [g EXCEPT ![t] = Append(g[t], p)]

EdgeCount(tasks) ==
    LET RECURSIVE Sum(_)
        Sum(i) == IF i = 0 THEN 0 ELSE Len(tasks[i].Predecessors) + Sum(i - 1)
    IN  Sum(Len(tasks))

\* task['Predecessors'].append(p) on the task of the list that carries ID t
AppendPred(tasks, t, p) ==
    [i \in DOMAIN tasks |->
        IF tasks[i].ID = t
        THEN [tasks[i] EXCEPT !.Predecessors = Append(@, p)]
        ELSE tasks[i]]

(***************************************************************************)
(* Specifications of the precedence graph.                                 *)
(***************************************************************************)
NoTasks == <<>>

IdleGraph == /\ tasks_list = NoTasks /\ new_pred = 0 /\ target_id = 0
             /\ cycle_found = FALSE
IdleCal   == start_dt = 0 /\ hours_needed = 0 /\ result_dt = 0
IdleSplit == /\ running_tasks = NoTasks /\ next_free_id = 0
             /\ input_tasks = NoTasks /\ input_id = 0 /\ roll_dt = 0
             /\ assigned_ids = {}
IdleRisk  == duration_hours = 0 /\ urgency = 0 /\ total_risk = 0
IdleHeap  == /\ heap = <<>> /\ heap_at_call = <<>> /\ heap_at_return = <<>>
             /\ task_refs = <<>> /\ split_refs = <<>> /\ mutated = 0

\* Tasks as ingestion leaves them before any predecessor is known.
FreshTasks == [i \in 1..NumTasks |-> [ID |-> i, Predecessors |-> <<>>]]

InitGraph ==
    /\ pc = "input"
    /\ tasks_list = FreshTasks
    /\ new_pred = 0 /\ target_id = 0 /\ cycle_found = FALSE
    /\ IdleCal /\ IdleSplit /\ IdleRisk /\ IdleHeap

\* A predecessor edit gated by check_cycles: the edge is committed only when
\* the check returned false (and the target exists, so there is a list to edit).
EditPredecessor(p, t) ==
    /\ pc \in {"input", "checked"}
    /\ EdgeCount(tasks_list) < MaxEdges
    /\ LET r == check_cycles(tasks_list, p, t)
       IN  /\ cycle_found' = r
           /\ tasks_list' = IF ~r /\ t \in IDsOf(tasks_list)
                            THEN AppendPred(tasks_list, t, p)
                            ELSE tasks_list
    /\ new_pred' = p /\ target_id' = t
    /\ pc' = "checked"
    /\ UNCHANGED <<calVars, splitVars, riskVars, heapVars>>

NextEdit == \E p \in GraphIDs, t \in GraphIDs : EditPredecessor(p, t)
SpecEdit == InitGraph /\ [][NextEdit]_vars

\* Ingestion fills a task's Predecessors with whatever the sheet holds.
IngestPredecessor(p, t) ==
    /\ pc = "input"
    /\ EdgeCount(tasks_list) < MaxEdges
    /\ tasks_list' = AppendPred(tasks_list, t, p)
    /\ UNCHANGED <<pc, new_pred, target_id, cycle_found, calVars, splitVars,
                   riskVars, heapVars>>

CheckCycles(p, t) ==
    /\ pc = "input"
    /\ cycle_found' = check_cycles(tasks_list, p, t)
    /\ new_pred' = p /\ target_id' = t
    /\ pc' = "checked"
    /\ UNCHANGED <<tasks_list, calVars, splitVars, riskVars, heapVars>>

NextCheck ==
    \/ \E p \in GraphIDs, t \in TaskIDs : IngestPredecessor(p, t)
    \/ \E p \in GraphIDs, t \in GraphIDs : CheckCycles(p, t)
SpecCheck == InitGraph /\ [][NextCheck]_vars

(***************************************************************************)
(* Specification of the working-hour arithmetic.                           *)
(***************************************************************************)
WeekTicks == 7 * 24 * TicksPerHour

InitCal ==
    /\ pc = "input"
    /\ start_dt \in 0..(WeekTicks - 1)
    /\ hours_needed \in (-1)..MaxHours
    /\ result_dt = 0
    /\ IdleGraph /\ IdleSplit /\ IdleRisk /\ IdleHeap

AddWorkHours ==
    /\ pc = "input"
    /\ result_dt' = add_work_hours(start_dt, hours_needed)
    /\ pc' = "done"
    /\ UNCHANGED <<start_dt, hours_needed, graphVars, splitVars, riskVars,
                   heapVars>>

NextCal == AddWorkHours
SpecCal == InitCal /\ [][NextCal]_vars

(***************************************************************************)
(* Specification of the risk scoring.                                      *)
(***************************************************************************)
\* Wednesday 31 January, Saturday 31 August and Sunday 1 September 2024.
RiskDays == {30, 243, 244}

RiskStarts ==
    {At(d, h, t) : d \in RiskDays, h \in {7, 11, 15, 16},
                   t \in 0..(TicksPerHour - 1)}

InitRisk ==
    /\ pc = "input"
    /\ start_dt \in RiskStarts
    /\ duration_hours \in (-1)..MaxRiskHours
    /\ urgency \in 0..MaxUrgency
    /\ hours_needed = 0 /\ result_dt = 0 /\ total_risk = 0
    /\ IdleGraph /\ IdleSplit /\ IdleHeap

CalculateRiskIntegral ==
    /\ pc = "input"
    /\ total_risk' = calculate_risk_integral(start_dt, duration_hours, urgency)
    /\ pc' = "done"
    /\ UNCHANGED <<start_dt, hours_needed, result_dt, duration_hours, urgency,
                   graphVars, splitVars, heapVars>>

NextRisk == CalculateRiskIntegral
SpecRisk == InitRisk /\ [][NextRisk]_vars

(***************************************************************************)
(* Specification of the rolling-horizon rollovers: the caller hands each   *)
(* call the task collection and the counter the previous call returned.    *)
(***************************************************************************)
\* Saturday 15:00 and 16:30, Sunday 09:00, Monday 08:00 and 10:00.
SplitTimes == {At(5, 15, 0), At(5, 16, 1), At(6, 9, 0), At(7, 8, 0), At(7, 10, 0)}

RunningTask(id, duration, s, e, preds) ==
    [ID |-> id, Duration_Hours |-> duration, start_dt |-> s, end_dt |-> e,
     status |-> "Running", Predecessors |-> preds]

\* The running task of the preemption example: Monday 08:00, eight hours.
ExampleTask == RunningTask(1, 8, At(7, 8, 0), At(7, 17, 0), <<>>)

\* Running tasks with ID id: any duration, any start, any end on a working day.
RunningTasksOf(id) ==
    {RunningTask(id, d, s, e, p) :
        d \in 1..MaxDuration,
        s \in SplitTimes,
        e \in {t \in SplitTimes : Weekday(t) # RestDay},
        p \in {<<>>} \cup {<<j>> : j \in 1..(id - 1)}}

StartsBeforeEnd(task) == task.start_dt < task.end_dt

InitialCollections ==
    {<<t>> : t \in {x \in RunningTasksOf(1) : StartsBeforeEnd(x)}}
    \cup {<<t1, t2>> : t1 \in {x \in RunningTasksOf(1) : StartsBeforeEnd(x)},
                       t2 \in {x \in RunningTasksOf(2) : StartsBeforeEnd(x)}}
    \cup {<<ExampleTask>>}

InitSplit ==
    /\ pc = "input"
    /\ running_tasks \in InitialCollections
    /\ next_free_id \in {Len(running_tasks) + 1, Len(running_tasks) + 2}
    /\ input_tasks = NoTasks /\ input_id = 0 /\ roll_dt = 0
    /\ assigned_ids = {}
    /\ IdleGraph /\ IdleCal /\ IdleRisk /\ IdleHeap

Rollover(roll) ==
    LET out == preempt_and_split(running_tasks, roll, next_free_id)
    IN  /\ out.next_free_id <= MaxID + 1
        /\ running_tasks' = out.split_tasks
        /\ next_free_id' = out.next_free_id
        /\ input_tasks' = running_tasks
        /\ input_id' = next_free_id
        /\ roll_dt' = roll
        /\ assigned_ids' = assigned_ids \cup IDsOf(running_tasks)
        /\ pc' = "done"
        /\ UNCHANGED <<graphVars, calVars, riskVars, heapVars>>

NextSplit == \E roll \in SplitTimes : Rollover(roll)
SpecSplit == InitSplit /\ [][NextSplit]_vars

(***************************************************************************)
(* Specification of one rollover on the heap, followed by statements of    *)
(* the caller that mutate a task the rollover created.                     *)
(***************************************************************************)
\* A running task as ingestion builds it, with one resource demand.
HeapTasksOf(id) ==
    {SetItem(RunningTask(id, d, At(5, 15, 0), e, p), "R_skilled", 1) :
        d \in 1..MaxDuration,
        e \in {At(5, 16, 1), At(7, 10, 0)},
        p \in {<<>>} \cup {<<j>> : j \in 1..(id - 1)}}

\* The heap holding the tasks of a collection: for each task its
\* Predecessors list and then its dict.
RECURSIVE Store(_, _)
Store(tasks, i) ==
    IF i = 0
    THEN <<>>
    ELSE LET h == Store(tasks, i - 1)
         IN  Append(Append(h, tasks[i].Predecessors),
                    SetItem(tasks[i], "Predecessors", Len(h) + 1))

InitHeap ==
    /\ pc = "input"
    /\ \E tasks \in {<<t>> : t \in HeapTasksOf(1)}
                    \cup {<<t1, t2>> : t1 \in HeapTasksOf(1), t2 \in HeapTasksOf(2)} :
        /\ heap = Store(tasks, Len(tasks))
        /\ task_refs = [i \in DOMAIN tasks |-> 2 * i]
        /\ next_free_id = Len(tasks) + 1
    /\ heap_at_call = <<>> /\ heap_at_return = <<>>
    /\ split_refs = <<>> /\ mutated = 0
    /\ running_tasks = NoTasks /\ input_tasks = NoTasks /\ input_id = 0
    /\ roll_dt = 0 /\ assigned_ids = {}
    /\ IdleGraph /\ IdleCal /\ IdleRisk

HeapRollover(roll) ==
    /\ pc = "input"
    /\ LET out == heap_preempt_and_split(heap, task_refs, roll, next_free_id)
       IN  /\ heap' = out.heap
           /\ heap_at_return' = out.heap
           /\ split_refs' = out.split_tasks
           /\ next_free_id' = out.next_free_id
    /\ heap_at_call' = heap
    /\ input_id' = next_free_id
    /\ roll_dt' = roll
    /\ pc' = "done"
    /\ UNCHANGED <<task_refs, mutated, running_tasks, input_tasks, assigned_ids,
                   graphVars, calVars, riskVars>>

\* Tasks of the output that the call created.
Derived == {split_refs[i] : i \in DOMAIN split_refs} \ {task_refs[i] : i \in DOMAIN task_refs}

\* task[k] = v on a derived task
AssignField(ref, k) ==
    /\ pc \in {"done", "mutated"}
    /\ mutated \in {0, ref}
    /\ ref \in Derived
    /\ heap[ref][k] # 99
    /\ heap' = [heap EXCEPT ![ref] = SetItem(@, k, 99)]
    /\ mutated' = ref
    /\ pc' = "mutated"
    /\ UNCHANGED <<heap_at_call, heap_at_return, task_refs, split_refs,
                   graphVars, calVars, riskVars, splitVars>>

\* task[k].append(v) on a list of a derived task
AppendToList(ref, k) ==
    /\ pc \in {"done", "mutated"}
    /\ mutated \in {0, ref}
    /\ ref \in Derived
    /\ k \in DOMAIN heap[ref]
    /\ Len(heap[heap[ref][k]]) < 3
    /\ heap' = [heap EXCEPT ![heap[ref][k]] = Append(@, 99)]
    /\ mutated' = ref
    /\ pc' = "mutated"
    /\ UNCHANGED <<heap_at_call, heap_at_return, task_refs, split_refs,
                   graphVars, calVars, riskVars, splitVars>>

NextHeap ==
    \/ \E roll \in SplitTimes : HeapRollover(roll)
    \/ \E ref \in 1..Len(heap), k \in {"Duration_Hours", "R_skilled"} :
            AssignField(ref, k)
    \/ \E ref \in 1..Len(heap), k \in ListKeys : AppendToList(ref, k)
SpecHeap == InitHeap /\ [][NextHeap]_vars

(***************************************************************************)
(* Claims about the precedence graph.                                      *)
(***************************************************************************)
\* C1: starting from an acyclic predecessor graph, after any sequence of
\* predecessor edits each committed only when check_cycles returned false on
\* the current tasks, the predecessor graph is still acyclic.
C1_GraphStaysAcyclic == Acyclic(TaskGraph(tasks_list))

\* A chain 1 -> 2 -> 3 was committed edge by edge, the last edit being accepted.
C1_Witness ==
    /\ pc = "checked" /\ ~cycle_found
    /\ HasEdge(TaskGraph(tasks_list), target_id, new_pred)
    /\ HasEdge(TaskGraph(tasks_list), 1, 2)
    /\ HasEdge(TaskGraph(tasks_list), 2, 3)

SnappedStart(start) ==
    LET z == ZeroMinutes(start)
        k == CHOOSE n \in 0..(2 * 24) :
                /\ is_working_hour(z + n * OneHour)
                /\ \A m \in 0..(n - 1) : ~is_working_hour(z + m * OneHour)
    IN  z + k * OneHour

\* Number of working one-hour slots a, a + 1h, ... that begin before b.
WorkingSlots(a, b) ==
    Cardinality({k \in 0..((b - a) \div OneHour) :
                    a + k * OneHour < b /\ is_working_hour(a + k * OneHour)})

\* C8: for hoursNeeded >= 1 add_work_hours returns the timestamp immediately
\* following the last counted working hour: exactly hoursNeeded slots of
\* [s, result) are working hours, the slot ending at result is a working
\* hour, 4 hours from a working-day 08:00 end at 12:00 and 8 hours at 17:00.
C8_EndsAfterLastCountedHour ==
    (pc = "done" /\ hours_needed >= 1) =>
        LET s == SnappedStart(start_dt)
        IN  /\ WorkingSlots(s, result_dt) = hours_needed
            /\ is_working_hour(result_dt - OneHour)
            /\ (start_dt = At(0, 8, 0) /\ hours_needed = 4
                    => result_dt = At(0, 12, 0))
            /\ (start_dt = At(0, 8, 0) /\ hours_needed = 8
                    => result_dt = At(0, 17, 0))

\* C9: add_work_hours is non-decreasing in hoursNeeded for every start,
\* including h1 <= 0 where the start is returned unchanged and unsnapped.
C9_MonotonicInHours ==
    pc = "done" =>
        \A h1 \in (-1)..(hours_needed - 1) :
            add_work_hours(start_dt, h1) <= result_dt

\* Two or more hours were added to a start off the hour on the rest day.
C9_Witness ==
    /\ pc = "done" /\ hours_needed >= 2
    /\ start_dt % TicksPerHour # 0
    /\ Weekday(start_dt) = RestDay
    /\ result_dt > start_dt

(***************************************************************************)
(* Claims about preemption and splitting.  They relate the collection and  *)
(* counter passed to the last call (input_tasks, input_id, roll_dt) to     *)
(* what it returned (running_tasks, next_free_id).                         *)
(***************************************************************************)
Range(f) == {f[i] : i \in DOMAIN f}
Min(a, b) == IF a <= b THEN a ELSE b

\* Input task i straddles the rollover instant.
Splits(i) == input_tasks[i].end_dt > roll_dt
SplitsBefore(i) == Cardinality({j \in 1..(i - 1) : Splits(j)})
SplitCount == Cardinality({j \in DOMAIN input_tasks : Splits(j)})

\* Where the first task made from input task i stands in the output.
Pos(i) == i + SplitsBefore(i)
DoneOf(i) == running_tasks[Pos(i)]
RemOf(i) == running_tasks[Pos(i) + 1]

\* C3: for every running task with EndTime > rollTime the Split-Done
\* segment's DurationHours equals the number of working hours between the
\* task's StartTime and rollTime (hour steps from StartTime), and the
\* Split-Remaining segment's DurationHours is the original minus that number.
C3_DoneIsHoursToRoll ==
    pc = "done" =>
        \A i \in DOMAIN input_tasks : Splits(i) =>
            LET t == input_tasks[i]
                n == WorkingSlots(t.start_dt, roll_dt)
            IN  /\ DoneOf(i).status = "Split-Done"
                /\ DoneOf(i).Duration_Hours = n
                /\ RemOf(i).status = "Split-Remaining"
                /\ RemOf(i).Duration_Hours = t.Duration_Hours - n
                /\ DoneOf(i).Duration_Hours + RemOf(i).Duration_Hours
                       = t.Duration_Hours

\* C3 as amended: the Split-Done segment's DurationHours is that number of
\* working hours capped at the task's DurationHours; the Split-Remaining
\* segment's is the original minus the Split-Done one, so the two sum to it.
C3_DoneIsCappedHoursToRoll ==
    pc = "done" =>
        \A i \in DOMAIN input_tasks : Splits(i) =>
            LET t == input_tasks[i]
                n == Min(WorkingSlots(t.start_dt, roll_dt), t.Duration_Hours)
            IN  /\ DoneOf(i).status = "Split-Done"
                /\ DoneOf(i).Duration_Hours = n
                /\ RemOf(i).status = "Split-Remaining"
                /\ RemOf(i).Duration_Hours = t.Duration_Hours - n
                /\ DoneOf(i).Duration_Hours + RemOf(i).Duration_Hours
                       = t.Duration_Hours

\* The preemption example: Monday 08:00, eight hours, rolled at Monday 10:00.
C3_Witness ==
    /\ pc = "done"
    /\ input_tasks = <<ExampleTask>> /\ roll_dt = At(7, 10, 0)
    /\ Len(running_tasks) = 2
    /\ running_tasks[1].Duration_Hours = 2
    /\ running_tasks[2].Duration_Hours = 6

\* C4: for every running task with DurationHours >= 1 and every rollTime,
\* also one lying after more working hours than DurationHours have elapsed
\* since StartTime, the Split-Remaining segment has DurationHours >= 0.
C4_RemainingNeverNegative ==
    pc = "done" =>
        \A i \in DOMAIN input_tasks :
            (Splits(i) /\ input_tasks[i].Duration_Hours >= 1) =>
                RemOf(i).Duration_Hours >= 0

\* A task split after more working hours than its duration had elapsed.
C4_Witness ==
    /\ pc = "done"
    /\ \E i \in DOMAIN input_tasks :
        /\ Splits(i)
        /\ input_tasks[i].Duration_Hours >= 1
        /\ WorkingSlots(input_tasks[i].start_dt, roll_dt)
               > input_tasks[i].Duration_Hours
        /\ RemOf(i).status = "Split-Remaining"
        /\ RemOf(i).Duration_Hours = 0

\* C5: the returned counter is the supplied one plus 2 times the number of
\* input tasks with EndTime > rollTime; a task with EndTime <= rollTime
\* consumes no ID, and the segments of each split task carry the two
\* consecutive counter values allocated for it.
C5_CounterAdvancesByTwo ==
    pc = "done" =>
        /\ next_free_id = input_id + 2 * SplitCount
        /\ \A i \in DOMAIN input_tasks :
            IF Splits(i)
            THEN /\ DoneOf(i).ID = input_id + 2 * SplitsBefore(i)
                 /\ RemOf(i).ID = input_id + 2 * SplitsBefore(i) + 1
            ELSE DoneOf(i) = input_tasks[i]

\* Of two tasks the first is passed through and the second is split.
C5_Witness ==
    /\ pc = "done"
    /\ Len(input_tasks) = 2
    /\ ~Splits(1) /\ Splits(2)
    /\ next_free_id = input_id + 2
    /\ running_tasks[2].ID = input_id

IDsDistinct(tasks) ==
    \A i, j \in DOMAIN tasks : i # j => tasks[i].ID # tasks[j].ID

\* C6: with distinct initial IDs and an initial counter above them, after
\* any sequence of rollovers fed with the previous call's tasks and counter
\* all IDs of the collection are pairwise distinct, and no ID value a task
\* ever carried is given to a task the call creates.
C6_IDsNeverReused ==
    /\ IDsDistinct(running_tasks)
    /\ pc = "done" =>
        \A i \in DOMAIN running_tasks :
            running_tasks[i] \notin Range(input_tasks) =>
                running_tasks[i].ID \notin assigned_ids

\* A second rollover splits a segment that an earlier rollover created.
C6_Witness ==
    /\ pc = "done"
    /\ \E i \in DOMAIN input_tasks :
        /\ Splits(i)
        /\ input_tasks[i].status = "Split-Remaining"
        /\ DoneOf(i).ID > input_tasks[i].ID

\* C7: every task passed to preempt_and_split, a split one included, is
\* still present with its original ID in the returned collection.
C7_NoTaskDeleted ==
    pc = "done" =>
        \A i \in DOMAIN input_tasks :
            \E j \in DOMAIN running_tasks :
                running_tasks[j].ID = input_tasks[i].ID

\* C10: the Split-Remaining segment's Predecessors (the field ingestion
\* fills and check_cycles reads) is {Split-Done.ID}, its StartTime is
\* rollTime and its Status is Split-Remaining.
C10_RemainingDependsOnDone ==
    pc = "done" =>
        \A i \in DOMAIN input_tasks : Splits(i) =>
            /\ Range(RemOf(i).Predecessors) = {DoneOf(i).ID}
            /\ RemOf(i).start_dt = roll_dt
            /\ RemOf(i).status = "Split-Remaining"

(***************************************************************************)
(* Claims about the risk scoring.                                          *)
(***************************************************************************)
\* The hour steps k for which start + k hours is one of the first n working
\* hours at or after start.
FirstWorkingSteps(start, n) ==
    {k \in 0..(3 * 24 + n) :
        /\ is_working_hour(start + k * OneHour)
        /\ Cardinality({j \in 0..(k - 1) :
                            is_working_hour(start + j * OneHour)}) < n}

RECURSIVE SumOver(_, _, _)
SumOver(S, start, urg) ==
    IF S = {}
    THEN 0
    ELSE LET k == CHOOSE x \in S : TRUE
         IN  get_risk_factor(start + k * OneHour)[1] * urg
                 + SumOver(S \ {k}, start, urg)

\* 100 times the sum of probability * urgency / 10 over those hours, in
\* thousandths.
RiskSum(start, n, urg) == 100 * SumOver(FirstWorkingSteps(start, n), start, urg)

\* C11: calculate_risk_integral is non-decreasing in durationHours for fixed
\* start and urgency and non-decreasing in urgency (0..10) for fixed start
\* and durationHours, its value being 100 times the sum over the first
\* durationHours working hours at or after start of
\* probability(month of the hour) * urgency / 10.
C11_RiskMonotonic ==
    pc = "done" =>
        /\ \A d1 \in (-1)..(duration_hours - 1) :
                calculate_risk_integral(start_dt, d1, urgency) <= total_risk
        /\ \A u1 \in 0..(urgency - 1) :
                calculate_risk_integral(start_dt, duration_hours, u1) <= total_risk
        /\ total_risk = RiskSum(start_dt, duration_hours, urgency)

\* Hours were scored on both sides of the turn from August to September,
\* where the probability falls.
C11_Witness ==
    /\ pc = "done"
    /\ urgency > 0 /\ duration_hours >= 2
    /\ Month(start_dt) = 8
    /\ \E k \in FirstWorkingSteps(start_dt, duration_hours) :
            Month(start_dt + k * OneHour) = 9
    /\ total_risk > calculate_risk_integral(start_dt, duration_hours - 1, urgency)

(***************************************************************************)
(* Claims about the objects preempt_and_split creates.                     *)
(***************************************************************************)
TaskRefs == Range(task_refs) \cup Range(split_refs)

\* C12: the Split-Done and Split-Remaining tasks are value copies, not
\* aliases: the call leaves every field of each input task unchanged, the
\* tasks it returns have the values of the split, and mutating a field of a
\* derived task afterwards (its nested predecessor lists and its resource
\* demand included) changes neither the other derived task nor any input task.
C12_DerivedTasksAreCopies ==
    /\ pc \in {"done", "mutated"} =>
        /\ \A i \in DOMAIN task_refs :
                TaskValue(heap_at_return, task_refs[i])
                    = TaskValue(heap_at_call, task_refs[i])
        /\ [i \in DOMAIN split_refs |-> TaskValue(heap_at_return, split_refs[i])]
                = preempt_and_split(
                      [i \in DOMAIN task_refs |-> TaskValue(heap_at_call, task_refs[i])],
                      roll_dt, input_id).split_tasks
    /\ pc = "mutated" =>
        \A ref \in TaskRefs \ {mutated} :
            TaskValue(heap, ref) = TaskValue(heap_at_return, ref)

\* The Predecessors list of a Split-Done task was appended to, its source
\* task having a predecessor, and the task's value changed.
C12_Witness ==
    /\ pc = "mutated"
    /\ heap[mutated].status = "Split-Done"
    /\ Len(heap[heap[mutated].Predecessors]) = 2
    /\ TaskValue(heap, mutated) # TaskValue(heap_at_return, mutated)
    /\ \E ref \in Range(task_refs) :
            /\ ref \notin Range(split_refs)
            /\ Len(TaskValue(heap, ref).Predecessors) = 1

====
